---- MODULE Spec2Model ----
(***************************************************************************)
(* Order save and the order-confirmed inventory handler.                   *)
(*                                                                         *)
(*   src/orders/models.py    Order, Order.save                             *)
(*   src/products/signals.py update_quantity_on_order_confirmation         *)
(*                                                                         *)
(* Money is counted in cents (DecimalField with decimal_places=2), so      *)
(* product.price * quantity is exact integer arithmetic.                   *)
(*                                                                         *)
(* Spec     : every request runs to completion before the next one starts  *)
(*            (the signal is dispatched synchronously, in the caller).     *)
(* SpecConc : the statements of the handler of different requests          *)
(*            interleave (several workers on one database).                *)
(***************************************************************************)
EXTENDS Integers, Sequences, FiniteSets

\* ------------------------------------------------------------- bounds
MaxOrders == 1
MaxRuns == 2
MaxQty == 1

\* ---------------------------------------------------------- constants
\* total_price of an Order instance that was never saved (null=True).
NoPrice == -1

ProductIds == {"p1", "p2"}
ProductName == [p1 |-> "Widget", p2 |-> "Gadget"]
\* The product of an Order instance that has none.
NoProduct == "none"

Quantities == 0..MaxQty
\* The prices the products take, in cents, and the stock they start with.
Prices == {999, 1499}
InitialPrice == [p1 |-> 999, p2 |-> 1499]
InitialStock == [p1 |-> 3, p2 |-> 1]
RunIds == 1..MaxRuns

VARIABLES
    products,   \* the Product table: id -> [name, price, quantity]
    orders,     \* the Order table: the rows in primary-key order
    runs,       \* one record per delivery of order_confirmed
    stdout,     \* the lines print() wrote
    lastSave    \* history: the order the last step saved (0: none), and
                \* whether its stored total_price was out of date then

vars == <<products, orders, runs, stdout, lastSave>>

\* ------------------------------------------------------------- Product
\* A Product instance in memory: the row and its primary key.
ProductInstance(p, row) ==
    [id |-> p, name |-> row.name, price |-> row.price, quantity |-> row.quantity]

NoLocal == [id |-> NoProduct, name |-> "", price |-> 0, quantity |-> 0]

\* --------------------------------------------------------------- Order
\* A new Order instance: Order(product=p, quantity=q).
Order(p, q) ==
    [product |-> p, quantity |-> q, total_price |-> NoPrice, confirmed |-> FALSE]

\* self.product.price * self.quantity
TotalPrice(self, prods) == prods[self.product].price * self.quantity

\* Mutant: total_price is computed only when the instance has none yet.
OrderSaveOnlyWhenUnset(self, prods) ==
    IF self.total_price = NoPrice
    THEN [self EXCEPT !.total_price = TotalPrice(self, prods)]
    ELSE self

\* Mutant: the unit price is stored instead of the total.
OrderSaveUnitPrice(self, prods) ==
    [self EXCEPT !.total_price = prods[self.product].price]

\* Mutant: the row is written with the default of confirmed.
OrderSaveDefaultConfirmed(self, prods) ==
    [self EXCEPT !.total_price = TotalPrice(self, prods), !.confirmed = FALSE]

\* The stored total_price of a row is not what its product's price gives.
Stale(row, prods) == row.total_price # TotalPrice(row, prods)

\* Order.save: the row that is persisted for the instance self.
OrderSave(self, prods) ==
    [self EXCEPT !.total_price = TotalPrice(self, prods)]

\* ------------------------------------------------------------- handler
\* The sender of the notification: an Order instance and its primary key
\* (0 for an instance that was never saved).
Sender(o, row) ==
    [id |-> o, product |-> row.product, quantity |-> row.quantity,
     confirmed |-> row.confirmed]

NoSender == [id |-> 0, product |-> NoProduct, quantity |-> 0, confirmed |-> FALSE]

NoSave == [order |-> 0, stale |-> FALSE]

IdleRun == [pc |-> "idle", sender |-> NoSender, product |-> NoLocal, error |-> ""]

\* A call of the handler that ended in an exception: the exception is all
\* that is left of it.
RaisedRun(error) ==
    [pc |-> "raised", sender |-> NoSender, product |-> NoLocal, error |-> error]

\* Mutant: a missing product falls back to some product of the table.
LookupOrAny(sender, prods) ==
    IF sender.product \in DOMAIN prods
    THEN ProductInstance(sender.product, prods[sender.product])
    ELSE LET p == CHOOSE x \in DOMAIN prods : TRUE IN ProductInstance(p, prods[p])

\* product = sender.product; NoLocal stands for the lookup raising.
Lookup(sender, prods) ==
    IF sender.product \in DOMAIN prods
    THEN ProductInstance(sender.product, prods[sender.product])
    ELSE NoLocal

\* Mutant: one unit is taken whatever the order's quantity.
DecrementByOne(product, sender) ==
    [product EXCEPT !.quantity = @ - 1]

\* Mutant: an order that a finished run already processed is skipped.
DecrementOnce(product, sender) ==
    IF \E r \in RunIds : runs[r].pc = "done" /\ runs[r].sender.id = sender.id
    THEN product
    ELSE [product EXCEPT !.quantity = @ - sender.quantity]

\* product.quantity -= sender.quantity
Decrement(product, sender) ==
    [product EXCEPT !.quantity = @ - sender.quantity]

\* Mutant: the quantity is written to every row of the table.
ProductSaveAllRows(prods, product) ==
    [p \in DOMAIN prods |->
        IF p = product.id
        THEN [name |-> product.name, price |-> product.price,
              quantity |-> product.quantity]
        ELSE [prods[p] EXCEPT !.quantity = product.quantity]]

\* product.save(): every field of the instance is written to its row.
ProductSave(prods, product) ==
    [prods EXCEPT ![product.id] =
        [name |-> product.name, price |-> product.price,
         quantity |-> product.quantity]]

\* The line print() writes.
Message(product) == [name |-> product.name, quantity |-> product.quantity]

\* Mutant: the line is printed before product.save() is called.
HandlerPrintsFirst(sender, prods, out, dbOk) ==
    LET found == Lookup(sender, prods) IN
    IF found = NoLocal
    THEN [pc |-> "raised", products |-> prods, stdout |-> out,
          error |-> "DoesNotExist"]
    ELSE LET product == Decrement(found, sender) IN
         IF dbOk
         THEN [pc |-> "done", products |-> ProductSave(prods, product),
               stdout |-> Append(out, Message(product)), error |-> ""]
         ELSE [pc |-> "raised", products |-> prods,
               stdout |-> Append(out, Message(product)), error |-> "DatabaseError"]

\* update_quantity_on_order_confirmation, from its first statement to its
\* last: the table, the output and the way the call ends ("done", or
\* "raised" when the lookup or the save raises). dbOk: the database takes
\* the write.
Handler(sender, prods, out, dbOk) ==
    LET found == Lookup(sender, prods) IN
    IF found = NoLocal
    THEN [pc |-> "raised", products |-> prods, stdout |-> out,
          error |-> "DoesNotExist"]
    ELSE LET product == Decrement(found, sender) IN
         IF dbOk
         THEN [pc |-> "done", products |-> ProductSave(prods, product),
               stdout |-> Append(out, Message(product)), error |-> ""]
         ELSE [pc |-> "raised", products |-> prods, stdout |-> out,
               error |-> "DatabaseError"]

\* ---------------------------------------------------------------- Init
Init ==
    /\ products = [p \in ProductIds |->
                      [name |-> ProductName[p], price |-> InitialPrice[p],
                       quantity |-> InitialStock[p]]]
    /\ orders = <<>>
    /\ runs = [r \in RunIds |-> IdleRun]
    /\ stdout = <<>>
    /\ lastSave = NoSave

\* The next delivery takes the first run record that is still idle.
NextRun(r) == runs[r].pc = "idle" /\ \A q \in RunIds : q < r => runs[q].pc # "idle"

\* ------------------------------------------------------------- actions
\* A caller creates an order: Order(product=p, quantity=q).save()
CreateOrder(p, q) ==
    /\ Len(orders) < MaxOrders
    /\ orders' = Append(orders, OrderSave(Order(p, q), products))
    /\ lastSave' = [order |-> Len(orders) + 1, stale |-> FALSE]
    /\ UNCHANGED <<products, runs, stdout>>

\* A caller loads order o, sets its quantity to q (or leaves it) and saves.
SaveOrder(o, q) ==
    /\ o \in 1..Len(orders)
    /\ orders' = [orders EXCEPT ![o] =
                    OrderSave([orders[o] EXCEPT !.quantity = q], products)]
    /\ lastSave' = [order |-> o, stale |-> Stale(orders[o], products)]
    /\ UNCHANGED <<products, runs, stdout>>

\* The price of a product is changed.
ChangePrice(p, c) ==
    /\ c # products[p].price
    /\ products' = [products EXCEPT ![p].price = c]
    /\ lastSave' = NoSave
    /\ UNCHANGED <<orders, runs, stdout>>

\* The confirming caller: order.confirmed = True; order.save();
\* order_confirmed.send(sender=order), the handler running inside send().
ConfirmOrder(r, o, dbOk) ==
    /\ NextRun(r)
    /\ o \in 1..Len(orders)
    /\ LET row == OrderSave([orders[o] EXCEPT !.confirmed = TRUE], products)
           sender == Sender(o, row)
           h == Handler(sender, products, stdout, dbOk)
       IN /\ orders' = [orders EXCEPT ![o] = row]
          /\ products' = h.products
          /\ stdout' = h.stdout
          /\ runs' = [runs EXCEPT ![r] =
                        IF h.pc = "raised" THEN RaisedRun(h.error)
                        ELSE [pc |-> h.pc, sender |-> sender, product |-> NoLocal,
                              error |-> ""]]
    /\ lastSave' = [order |-> o, stale |-> Stale(orders[o], products)]

\* The notification is sent for an Order instance that has no product.
SendDetached(r, dbOk) ==
    /\ NextRun(r)
    /\ LET sender == Sender(0, Order(NoProduct, 1))
           h == Handler(sender, products, stdout, dbOk)
       IN /\ products' = h.products
          /\ stdout' = h.stdout
          /\ runs' = [runs EXCEPT ![r] =
                        IF h.pc = "raised" THEN RaisedRun(h.error)
                        ELSE [pc |-> h.pc, sender |-> sender, product |-> NoLocal,
                              error |-> ""]]
    /\ lastSave' = NoSave
    /\ UNCHANGED orders

Next ==
    \/ \E p \in ProductIds, q \in Quantities : CreateOrder(p, q)
    \/ \E o \in 1..MaxOrders, q \in Quantities : SaveOrder(o, q)
    \/ \E p \in ProductIds, c \in Prices : ChangePrice(p, c)
    \/ \E r \in RunIds, o \in 1..MaxOrders, dbOk \in BOOLEAN : ConfirmOrder(r, o, dbOk)
    \/ \E r \in RunIds, dbOk \in BOOLEAN : SendDetached(r, dbOk)

Spec == Init /\ [][Next]_vars

\* ------------------------------------------ the handler, by statement
\* Mutant: the write is UPDATE ... SET quantity = quantity - n, on the row
\* as it is when the write happens.
PersistAtomic(prods, run) ==
    [prods EXCEPT ![run.product.id].quantity = @ - run.sender.quantity]

\* product.save() of a run: the instance the run holds is written.
Persist(prods, run) == ProductSave(prods, run.product)

\* The confirming caller up to the call of the handler.
StartConfirm(r, o) ==
    /\ NextRun(r)
    /\ o \in 1..Len(orders)
    /\ LET row == OrderSave([orders[o] EXCEPT !.confirmed = TRUE], products)
       IN /\ orders' = [orders EXCEPT ![o] = row]
          /\ runs' = [runs EXCEPT ![r] =
                        [pc |-> "lookup", sender |-> Sender(o, row),
                         product |-> NoLocal, error |-> ""]]
    /\ lastSave' = [order |-> o, stale |-> Stale(orders[o], products)]
    /\ UNCHANGED <<products, stdout>>

\* The sender of a notification has no product.
StartDetached(r) ==
    /\ NextRun(r)
    /\ runs' = [runs EXCEPT ![r] =
                  [pc |-> "lookup", sender |-> Sender(0, Order(NoProduct, 1)),
                   product |-> NoLocal, error |-> ""]]
    /\ lastSave' = NoSave
    /\ UNCHANGED <<products, orders, stdout>>

\* product = sender.product
StepLookup(r) ==
    /\ runs[r].pc = "lookup"
    /\ LET found == Lookup(runs[r].sender, products)
       IN runs' = [runs EXCEPT ![r] =
                    IF found = NoLocal
                    THEN RaisedRun("DoesNotExist")
                    ELSE [@ EXCEPT !.pc = "decrement", !.product = found]]
    /\ lastSave' = NoSave
    /\ UNCHANGED <<products, orders, stdout>>

\* product.quantity -= sender.quantity
StepDecrement(r) ==
    /\ runs[r].pc = "decrement"
    /\ runs' = [runs EXCEPT ![r] =
                  [@ EXCEPT !.pc = "save",
                            !.product = Decrement(runs[r].product, runs[r].sender)]]
    /\ lastSave' = NoSave
    /\ UNCHANGED <<products, orders, stdout>>

\* product.save()
StepSave(r, dbOk) ==
    /\ runs[r].pc = "save"
    /\ IF dbOk
       THEN /\ products' = Persist(products, runs[r])
            /\ runs' = [runs EXCEPT ![r] = [@ EXCEPT !.pc = "print"]]
       ELSE /\ products' = products
            /\ runs' = [runs EXCEPT ![r] =
                          RaisedRun("DatabaseError")]
    /\ lastSave' = NoSave
    /\ UNCHANGED <<orders, stdout>>

\* print(...)
StepPrint(r) ==
    /\ runs[r].pc = "print"
    /\ stdout' = Append(stdout, Message(runs[r].product))
    /\ runs' = [runs EXCEPT ![r] = [@ EXCEPT !.pc = "done", !.product = NoLocal]]
    /\ lastSave' = NoSave
    /\ UNCHANGED <<products, orders>>

NextConc ==
    \/ \E p \in ProductIds, q \in Quantities : CreateOrder(p, q)
    \/ \E r \in RunIds, o \in 1..MaxOrders : StartConfirm(r, o)
    \/ \E r \in RunIds : StartDetached(r)
    \/ \E r \in RunIds : StepLookup(r)
    \/ \E r \in RunIds : StepDecrement(r)
    \/ \E r \in RunIds, dbOk \in BOOLEAN : StepSave(r, dbOk)
    \/ \E r \in RunIds : StepPrint(r)

SpecConc == Init /\ [][NextConc]_vars

\* ------------------------------------------------------------- helpers
\* A run that came to its end in this step.
Ran(r) == runs[r].pc = "idle" /\ runs'[r].pc # "idle"

\* What the finished runs 1..n took from product p, by their senders.
RECURSIVE TakenUpTo(_, _)
TakenUpTo(p, n) ==
    IF n = 0 THEN 0
    ELSE TakenUpTo(p, n - 1)
         + (IF runs[n].pc = "done" /\ runs[n].sender.product = p
            THEN runs[n].sender.quantity ELSE 0)

DoneRuns == {r \in RunIds : runs[r].pc = "done"}

\* -------------------------------------------------------------- claims
\* C1: right after any Order.save (on creation, on a later save, on the
\* save of the confirming caller) the stored total_price is the product's
\* price times the order's quantity, whatever it was before.
C1_TotalPriceAfterSave ==
    lastSave.order # 0 =>
        LET row == orders[lastSave.order]
        IN row.total_price = products[row.product].price * row.quantity

\* C1 witness: an order saved again after its product's price changed.
C1_Witness ==
    /\ lastSave.order # 0
    /\ lastSave.stale
    /\ ~orders[lastSave.order].confirmed
    /\ orders[lastSave.order].quantity > 0
    /\ products[orders[lastSave.order].product].price
         # InitialPrice[orders[lastSave.order].product]
    /\ orders[lastSave.order].total_price
         = products[orders[lastSave.order].product].price * orders[lastSave.order].quantity

\* C2: one delivery of the notification that the handler completes takes
\* exactly the order's quantity from the order's product: the persisted
\* quantity is the previous one minus order.quantity.
C2_OneDecrementPerDelivery ==
    [][\A r \in RunIds :
        (Ran(r) /\ runs'[r].pc = "done") =>
            LET o == runs'[r].sender.id
            IN /\ o \in 1..Len(orders')
               /\ products'[orders'[o].product].quantity
                    = products[orders'[o].product].quantity - orders'[o].quantity]_vars

\* C2 witness: a single completed delivery for an order of a positive quantity.
C2_Witness ==
    \E r \in RunIds :
        /\ DoneRuns = {r}
        /\ runs[r].sender.quantity > 0
        /\ products[runs[r].sender.product].quantity
             = InitialStock[runs[r].sender.product] - runs[r].sender.quantity

\* C3: a price change leaves the stored total_price of every order as it
\* was, and every later save of the order, also one that only sets
\* confirmed, stores the current price times the quantity.
C3_SaveRecomputesFromCurrentPrice ==
    [][/\ ((\E p \in ProductIds : products'[p].price # products[p].price) =>
            orders' = orders)
       /\ (lastSave'.order # 0 =>
            LET o == lastSave'.order
            IN orders'[o].total_price
                 = products[orders'[o].product].price * orders'[o].quantity)
       /\ \A o \in 1..Len(orders) :
            (~orders[o].confirmed /\ orders'[o].confirmed) =>
                /\ lastSave'.order = o
                /\ orders'[o].quantity = orders[o].quantity
                /\ orders'[o].product = orders[o].product]_vars

\* C3 witness: confirming an order whose total_price was out of date
\* brought it up to date.
C3_Witness ==
    /\ lastSave.order # 0
    /\ lastSave.stale
    /\ orders[lastSave.order].confirmed
    /\ orders[lastSave.order].quantity > 0
    /\ ~Stale(orders[lastSave.order], products)

\* C4: with serialized deliveries every completed delivery takes its
\* order's quantity again: each product holds its initial stock minus the
\* sum over all completed deliveries, n deliveries of one order taking n
\* times its quantity.
C4_EveryDeliveryDecrements ==
    \A p \in ProductIds :
        products[p].quantity = InitialStock[p] - TakenUpTo(p, MaxRuns)

\* C4 witness: the same order delivered twice, its quantity taken twice.
C4_Witness ==
    \E r1, r2 \in RunIds :
        /\ r1 # r2
        /\ DoneRuns = {r1, r2}
        /\ runs[r1].sender = runs[r2].sender
        /\ runs[r1].sender.quantity > 0
        /\ products[runs[r1].sender.product].quantity
             = InitialStock[runs[r1].sender.product] - 2 * runs[r1].sender.quantity

\* C5: a run of the handler leaves every product other than the sender's
\* own (its name, price and quantity) as it was.
C5_OtherProductsUntouched ==
    [][\A r \in RunIds :
        /\ (Ran(r) /\ runs'[r].pc = "done") =>
              \A p \in ProductIds \ {runs'[r].sender.product} :
                  products'[p] = products[p]
        /\ (Ran(r) /\ runs'[r].pc = "raised") => products' = products]_vars

\* C5 witness: a completed delivery changed its own product and the other
\* products still hold their initial stock.
C5_Witness ==
    \E r \in RunIds :
        /\ runs[r].pc = "done"
        /\ products[runs[r].sender.product].quantity
             # InitialStock[runs[r].sender.product]
        /\ \A p \in ProductIds \ {runs[r].sender.product} :
              products[p].quantity = InitialStock[p]

\* C6: no product's quantity is ever below zero.
C6_QuantityNeverNegative ==
    \A p \in ProductIds : products[p].quantity >= 0

\* C7: a run that completes prints exactly one line, after the save, with
\* the product's name and the quantity just persisted (the one after the
\* decrement); a run that ends in an error prints nothing and persists
\* nothing; so there are as many lines as completed runs.
C7_OneMessageAfterSave ==
    /\ [](Len(stdout) = Cardinality(DoneRuns))
    /\ [][\A r \in RunIds :
            /\ (Ran(r) /\ runs'[r].pc = "done") =>
                 LET s == runs'[r].sender
                 IN /\ stdout' = Append(stdout,
                                        [name |-> products'[s.product].name,
                                         quantity |-> products'[s.product].quantity])
                    /\ products'[s.product].quantity
                         = products[s.product].quantity - s.quantity
            /\ (Ran(r) /\ runs'[r].pc = "raised") =>
                 (stdout' = stdout /\ products' = products)]_vars

\* C7 witness: one run failed at the save and printed nothing, another
\* completed and printed its line.
C7_Witness ==
    \E r1, r2 \in RunIds :
        /\ runs[r1].pc = "raised" /\ runs[r1].error = "DatabaseError"
        /\ runs[r2].pc = "done" /\ runs[r2].sender.quantity > 0
        /\ stdout = <<[name |-> products[runs[r2].sender.product].name,
                       quantity |-> products[runs[r2].sender.product].quantity]>>

\* C8: the handler's read, decrement and write are three separate steps on
\* a copy: the lookup copies the row as it is then, the decrement changes
\* only the copy, and the write stores the copy's quantity whatever was
\* persisted since; two runs that both read before either writes
\* therefore lose one decrement.
C8_WriteIsBlind ==
    [][\A r \in RunIds :
        /\ (runs[r].pc = "lookup" /\ runs'[r].pc = "decrement") =>
              /\ runs'[r].product.quantity = products[runs'[r].product.id].quantity
              /\ products' = products
        /\ (runs[r].pc = "decrement" /\ runs'[r].pc = "save") =>
              /\ runs'[r].product.quantity
                   = runs[r].product.quantity - runs[r].sender.quantity
              /\ products' = products
        /\ (runs[r].pc = "save" /\ runs'[r].pc = "print") =>
              products'[runs[r].product.id].quantity = runs[r].product.quantity]_vars

\* C8 witness: two runs for the same product completed, each for a positive
\* quantity, and the product lost only the quantity of one of them.
C8_Witness ==
    \E r1, r2 \in RunIds :
        /\ r1 # r2
        /\ DoneRuns = {r1, r2}
        /\ runs[r1].sender.product = runs[r2].sender.product
        /\ runs[r1].sender.quantity > 0 /\ runs[r2].sender.quantity > 0
        /\ \A r \in RunIds \ {r1, r2} : runs[r].pc = "idle"
        /\ products[runs[r1].sender.product].quantity
             = InitialStock[runs[r1].sender.product] - runs[r2].sender.quantity

C10_LookupFailureSurfaces ==
    /\ [](\A r \in DoneRuns : runs[r].sender.product \in ProductIds)
    /\ [][\A r \in RunIds :
            /\ (Ran(r) /\ runs'[r].error = "DoesNotExist") =>
                  /\ runs'[r].pc = "raised"
                  /\ products' = products
                  /\ stdout' = stdout
            /\ (runs[r].pc = "raised" => runs'[r] = runs[r])]_vars

\* C10 witness: a delivery for a sender without a product has raised.
C10_Witness ==
    \E r \in RunIds :
        /\ runs[r].pc = "raised"
        /\ runs[r].error = "DoesNotExist"
        /\ stdout = <<>>
        /\ \A p \in ProductIds : products[p].quantity = InitialStock[p]

====
